---- MODULE Spec2Model ----
(***************************************************************************)
(* Model of scripts/migrate_claims.py: the one-pass migration that copies  *)
(* a store id and a role into the custom claims of every user.             *)
(*                                                                         *)
(* State: the Document Store (storeDocs, the users collection), the        *)
(* Identity/Claims Store (claims, revoked), the Report Sink (report,       *)
(* reportCount), the locals of one invocation of the script (response,     *)
(* stores_by_owner, todo, user_id, current_claims, stats, results), the   *)
(* position of the invocation (pc), and two history records (cur, prev)   *)
(* that log what the current and the previous invocation did.             *)
(***************************************************************************)
EXTENDS Integers, Sequences, FiniteSets, TLC

\* Invocations of the script that enter migrate_claims in one behaviour.
MaxRuns == 2
\* Longest line typed at the confirmation prompt.
MaxInputLen == 2

\* Python's None, also the value of dict.get for an absent key.
NoVal == "None"

\* Ids of the documents of the `users` collection (also the Auth uids).
Users == {"u1", "u2"}

\* The `email` field of each user document (absent for u2).
UserEmailField == [u \in Users |-> IF u = "u1" THEN "a@x.com" ELSE NoVal]

\* user_data.get('email', 'N/A')
EmailOf(u) == IF UserEmailField[u] = NoVal THEN "N/A" ELSE UserEmailField[u]

\* Ids of the documents of the `stores` collection, in stream order.
StoreDocIds == <<"S1", "S2", "S3">>

\* basicInfo.name of each store document (absent but for S1).
StoreNameField(id) == IF id = "S1" THEN "Acme" ELSE NoVal

\* The ownerId fields of the store documents, in stream order, in each Document
\* Store considered. In the first, u1 owns two stores, one store has no ownerId
\* and u2 owns none; in the second, each user owns one store and one store has an
\* empty ownerId.
StoreOwnerCases ==
    { <<"u1", NoVal, "u1">>, <<"u2", "", "u1">> }

\* Python truthiness of an optional string: None and '' are falsy.
Truthy(v) == v # NoVal /\ v # ""

\* A custom-claims dict over the keys storeId, role and one unrelated key (plan);
\* NoVal marks an absent key. None and {} are both the dict with no key.
EmptyClaims == [storeId |-> NoVal, role |-> NoVal, plan |-> NoVal]

\* Claim sets a user may hold before the first invocation: an empty storeId, an
\* unrelated key and no storeId, a storeId with a role and an unrelated key.
InitClaimSets ==
    { [storeId |-> "",    role |-> NoVal,   plan |-> NoVal],
      [storeId |-> NoVal, role |-> NoVal,   plan |-> "pro"],
      [storeId |-> "S9",  role |-> "owner", plan |-> "pro"] }

\* Characters typed at the prompt.
Alphabet == {"s", "S", "n", " "}

\* Lines of at most MaxInputLen characters.
Inputs == UNION { [1..n -> Alphabet] : n \in 0..MaxInputLen }

\* str.strip(): drops leading and trailing whitespace.
RECURSIVE LStrip(_)
LStrip(s) == IF s # <<>> /\ Head(s) = " " THEN LStrip(Tail(s)) ELSE s

RECURSIVE RStrip(_)
RStrip(s) ==
    IF s # <<>> /\ s[Len(s)] = " " THEN RStrip(SubSeq(s, 1, Len(s) - 1)) ELSE s

Strip(s) == RStrip(LStrip(s))

\* str.lower() on one character and on a line.
LowerChar(c) == IF c = "S" THEN "s" ELSE c

Lower(s) == [i \in 1..Len(s) |-> LowerChar(s[i])]

\* IsAffirmative with the comparison dropped.
IsAffirmativeAlways(resp) == TRUE

\* response == 's'
IsAffirmative(resp) == resp = <<"s">>

\* The entry of the ownership index for an owner with no store (dict.get -> None).
NoStoreInfo == [storeId |-> NoVal, storeName |-> NoVal]

\* data.get('basicInfo', {}).get('name', 'Sin nombre')
StoreNameOf(d) == IF d.name = NoVal THEN "Sin nombre" ELSE d.name

\* get_all_stores: one pass over the stream; a later document of the same owner
\* overwrites the earlier entry; a falsy ownerId is skipped.
RECURSIVE IndexFrom(_, _)
IndexFrom(docs, idx) ==
    IF docs = <<>> THEN idx
    ELSE LET d == Head(docs) IN
         IndexFrom(Tail(docs),
                   IF Truthy(d.ownerId)
                   THEN [idx EXCEPT ![d.ownerId] =
                            [storeId |-> d.id, storeName |-> StoreNameOf(d)]]
                   ELSE idx)

get_all_stores(docs) == IndexFrom(docs, [u \in Users |-> NoStoreInfo])

\* get_user_current_claims: the stored dict, or {} when auth.get_user raises.
get_user_current_claims(stored, ok) == IF ok THEN stored ELSE EmptyClaims

\* HasStoreClaim with the short-circuit never taken.
HasStoreClaimNever(c) == FALSE

\* if current_claims.get('storeId')
HasStoreClaim(c) == Truthy(c.storeId)

\* HasStore with the lookup result not tested.
HasStoreAlways(info) == TRUE

\* if not store_info
HasStore(info) == info # NoStoreInfo

\* NewClaims with the storeId left out.
NewClaimsRoleOnly(info) == [storeId |-> NoVal, role |-> "owner", plan |-> NoVal]

\* new_claims = {'storeId': store_info['storeId'], 'role': 'owner'}
NewClaims(info) == [storeId |-> info.storeId, role |-> "owner", plan |-> NoVal]

\* An entry of `results`.
Outcome(u, status, storeId, role) ==
    [userId |-> u, email |-> EmailOf(u), status |-> status,
     storeId |-> storeId, role |-> role]

ZeroStats ==
    [total |-> 0, migrated |-> 0, already_has_claims |-> 0, no_store |-> 0, errors |-> 0]

\* Bump with the increment lost.
BumpNothing(s, key) == s

\* stats[key] += 1
Bump(s, key) == [s EXCEPT ![key] = @ + 1]

\* The calls made for a user in one invocation: "-" not made, "ok", "fail".
NoCalls == [fetch |-> "-", write |-> "-", revoke |-> "-"]

Res(ok) == IF ok THEN "ok" ELSE "fail"

NoReport == [written |-> FALSE, stats |-> ZeroStats, results |-> <<>>]

VARIABLES
    pc,               \* position of the invocation
    run,              \* invocations that entered migrate_claims so far
    response,         \* the normalised answer to the prompt
    storeDocs,        \* Document Store: the `stores` collection
    claims,           \* Identity/Claims Store: custom claims by uid
    revoked,          \* Identity/Claims Store: uids whose tokens were revoked
    report,           \* Report Sink: the file this invocation wrote
    reportCount,      \* Report Sink: number of files written so far
    stores_by_owner,  \* the ownership index
    todo,             \* user documents the stream has not yielded yet
    user_id,          \* the user document being processed
    current_claims,   \* the claims fetched for user_id
    stats,            \* the running counts
    results,          \* the outcome records, in processing order
    cur,              \* history: what this invocation did
    prev              \* history: what the last invocation that ran migrate_claims did

vars == <<pc, run, response, storeDocs, claims, revoked, report, reportCount,
          stores_by_owner, todo, user_id, current_claims, stats, results, cur, prev>>

locals == <<stores_by_owner, todo, user_id, current_claims, stats, results>>

\* The status recorded for user u in a list of outcome records ("-" if none).
StatusIn(rs, u) ==
    IF \E i \in 1..Len(rs) : rs[i].userId = u
    THEN rs[CHOOSE i \in 1..Len(rs) : rs[i].userId = u].status
    ELSE "-"

\* The users whose claim write succeeded and whose revocation failed in a log.
MissedIn(log) ==
    {u \in Users : log.calls[u].write = "ok" /\ log.calls[u].revoke = "fail"}

\* The log of an invocation that starts with the claims c: whether it entered
\* migrate_claims, whether it wrote its report, the claims it started from, the
\* calls it made, the status it recorded per user (filled in when it ends), and
\* the users an earlier invocation left with a missed revocation.
FreshLog(c, missed) ==
    [ran |-> FALSE, completed |-> FALSE, startClaims |-> c,
     calls |-> [u \in Users |-> NoCalls], status |-> [u \in Users |-> "-"],
     missed |-> missed]

\* The log of the invocation as it ends.
ClosedLog == [cur EXCEPT !.status = [u \in Users |-> StatusIn(results, u)]]

Init ==
    /\ pc = "prompt"
    /\ run = 0
    /\ response = <<>>
    /\ storeDocs \in { [i \in 1..Len(StoreDocIds) |->
                          [id |-> StoreDocIds[i], ownerId |-> o[i],
                           name |-> StoreNameField(StoreDocIds[i])]]
                       : o \in StoreOwnerCases }
    /\ claims \in [Users -> InitClaimSets]
    /\ revoked = [u \in Users |-> FALSE]
    /\ report = NoReport
    /\ reportCount = 0
    /\ stores_by_owner = [u \in Users |-> NoStoreInfo]
    /\ todo = {}
    /\ user_id = NoVal
    /\ current_claims = EmptyClaims
    /\ stats = ZeroStats
    /\ results = <<>>
    /\ cur = FreshLog(claims, {})
    /\ prev = FreshLog(claims, {})

\* The operator starts the script again after it ended: a new process with fresh
\* locals. The files of earlier invocations stay in the Report Sink (reportCount);
\* `report` is the file of the new invocation, not written yet.
Launch ==
    /\ pc \in {"done", "cancelled", "interrupted"}
    /\ run < MaxRuns
    /\ pc' = "prompt"
    /\ response' = <<>>
    /\ report' = NoReport
    /\ stores_by_owner' = [u \in Users |-> NoStoreInfo]
    /\ todo' = {}
    /\ user_id' = NoVal
    /\ current_claims' = EmptyClaims
    /\ stats' = ZeroStats
    /\ results' = <<>>
    /\ prev' = IF cur.ran THEN ClosedLog ELSE prev
    /\ cur' = FreshLog(claims, cur.missed \cup MissedIn(cur))
    /\ UNCHANGED <<run, storeDocs, claims, revoked, reportCount>>

\* __main__: response = input().strip().lower(); migrate_claims() only on 's'.
Answer(inp) ==
    /\ pc = "prompt"
    /\ response' = Lower(Strip(inp))
    /\ IF IsAffirmative(response')
       THEN /\ pc' = "load"
            /\ run' = run + 1
            /\ cur' = [cur EXCEPT !.ran = TRUE]
       ELSE /\ pc' = "cancelled"
            /\ UNCHANGED <<run, cur>>
    /\ UNCHANGED <<storeDocs, claims, revoked, report, reportCount, locals, prev>>

\* Interrupt with the claims of the run restored as the process ends.
InterruptRollback ==
    /\ pc \in {"prompt", "load", "loop", "fetched", "written"}
    /\ pc' = "interrupted"
    /\ claims' = cur.startClaims
    /\ UNCHANGED <<run, response, storeDocs, revoked, report, reportCount,
                   locals, cur, prev>>

\* __main__: KeyboardInterrupt (or any other exception that reaches the top
\* level) at the prompt or anywhere inside migrate_claims ends the process.
Interrupt ==
    /\ pc \in {"prompt", "load", "loop", "fetched", "written"}
    /\ pc' = "interrupted"
    /\ UNCHANGED <<run, response, storeDocs, claims, revoked, report, reportCount,
                   locals, cur, prev>>

\* migrate_claims: build the index, initialise stats and results, open the stream.
LoadStores ==
    /\ pc = "load"
    /\ stores_by_owner' = get_all_stores(storeDocs)
    /\ stats' = ZeroStats
    /\ results' = <<>>
    /\ todo' = Users
    /\ pc' = "loop"
    /\ UNCHANGED <<run, response, storeDocs, claims, revoked, report, reportCount,
                   user_id, current_claims, cur, prev>>

\* The stream yields user u; total is counted and the claims are fetched.
FetchClaims(u, ok) ==
    /\ pc = "loop"
    /\ u \in todo
    /\ todo' = todo \ {u}
    /\ user_id' = u
    /\ stats' = Bump(stats, "total")
    /\ current_claims' = get_user_current_claims(claims[u], ok)
    /\ cur' = [cur EXCEPT !.calls[u].fetch = Res(ok)]
    /\ pc' = "fetched"
    /\ UNCHANGED <<run, response, storeDocs, claims, revoked, report, reportCount,
                   stores_by_owner, results, prev>>

\* AlreadyHasClaims with the revocation retried for the short-circuited user.
AlreadyHasClaimsRetry ==
    /\ pc = "fetched"
    /\ HasStoreClaim(current_claims)
    /\ \E ok \in BOOLEAN :
          /\ cur' = [cur EXCEPT !.calls[user_id].revoke = Res(ok)]
          /\ revoked' = IF ok THEN [revoked EXCEPT ![user_id] = TRUE] ELSE revoked
    /\ stats' = Bump(stats, "already_has_claims")
    /\ results' = Append(results, Outcome(user_id, "already_has_claims",
                                          current_claims.storeId, current_claims.role))
    /\ pc' = "loop"
    /\ UNCHANGED <<run, response, storeDocs, claims, report, reportCount,
                   stores_by_owner, todo, user_id, current_claims, prev>>

\* The user already carries a storeId claim.
AlreadyHasClaims ==
    /\ pc = "fetched"
    /\ HasStoreClaim(current_claims)
    /\ stats' = Bump(stats, "already_has_claims")
    /\ results' = Append(results, Outcome(user_id, "already_has_claims",
                                          current_claims.storeId, current_claims.role))
    /\ pc' = "loop"
    /\ UNCHANGED <<run, response, storeDocs, claims, revoked, report, reportCount,
                   stores_by_owner, todo, user_id, current_claims, cur, prev>>

\* The user owns no store.
NoStore ==
    /\ pc = "fetched"
    /\ ~HasStoreClaim(current_claims)
    /\ ~HasStore(stores_by_owner[user_id])
    /\ stats' = Bump(stats, "no_store")
    /\ results' = Append(results, Outcome(user_id, "no_store", NoVal, NoVal))
    /\ pc' = "loop"
    /\ UNCHANGED <<run, response, storeDocs, claims, revoked, report, reportCount,
                   stores_by_owner, todo, user_id, current_claims, cur, prev>>

\* SetClaims with a failed write leaving the loop (a `break` after the error).
SetClaimsBreak(ok) ==
    /\ pc = "fetched"
    /\ ~HasStoreClaim(current_claims)
    /\ HasStore(stores_by_owner[user_id])
    /\ cur' = [cur EXCEPT !.calls[user_id].write = Res(ok)]
    /\ IF ok
       THEN /\ claims' = [claims EXCEPT ![user_id] =
                              NewClaims(stores_by_owner[user_id])]
            /\ pc' = "written"
            /\ UNCHANGED <<stats, results, todo>>
       ELSE /\ stats' = Bump(stats, "errors")
            /\ results' = Append(results, Outcome(user_id, "error", NoVal, NoVal))
            /\ todo' = {}
            /\ pc' = "loop"
            /\ UNCHANGED claims
    /\ UNCHANGED <<run, response, storeDocs, revoked, report, reportCount,
                   stores_by_owner, user_id, current_claims, prev>>

\* set_user_claims: on success the claim set of the uid is replaced by new_claims;
\* on failure the user is recorded as an error.
SetClaims(ok) ==
    /\ pc = "fetched"
    /\ ~HasStoreClaim(current_claims)
    /\ HasStore(stores_by_owner[user_id])
    /\ cur' = [cur EXCEPT !.calls[user_id].write = Res(ok)]
    /\ IF ok
       THEN /\ claims' = [claims EXCEPT ![user_id] =
                              NewClaims(stores_by_owner[user_id])]
            /\ pc' = "written"
            /\ UNCHANGED <<stats, results>>
       ELSE /\ stats' = Bump(stats, "errors")
            /\ results' = Append(results, Outcome(user_id, "error", NoVal, NoVal))
            /\ pc' = "loop"
            /\ UNCHANGED claims
    /\ UNCHANGED <<run, response, storeDocs, revoked, report, reportCount,
                   stores_by_owner, todo, user_id, current_claims, prev>>

\* RevokeTokens with a failed revocation recorded as an error.
RevokeTokensStrict(ok) ==
    /\ pc = "written"
    /\ cur' = [cur EXCEPT !.calls[user_id].revoke = Res(ok)]
    /\ revoked' = IF ok THEN [revoked EXCEPT ![user_id] = TRUE] ELSE revoked
    /\ stats' = Bump(stats, IF ok THEN "migrated" ELSE "errors")
    /\ results' = Append(results,
                         IF ok THEN Outcome(user_id, "migrated",
                                            stores_by_owner[user_id].storeId, "owner")
                               ELSE Outcome(user_id, "error", NoVal, NoVal))
    /\ pc' = "loop"
    /\ UNCHANGED <<run, response, storeDocs, claims, report, reportCount,
                   stores_by_owner, todo, user_id, current_claims, prev>>

\* revoke_user_tokens, then the user is recorded as migrated whatever it returned.
RevokeTokens(ok) ==
    /\ pc = "written"
    /\ cur' = [cur EXCEPT !.calls[user_id].revoke = Res(ok)]
    /\ revoked' = IF ok THEN [revoked EXCEPT ![user_id] = TRUE] ELSE revoked
    /\ stats' = Bump(stats, "migrated")
    /\ results' = Append(results, Outcome(user_id, "migrated",
                                          stores_by_owner[user_id].storeId, "owner"))
    /\ pc' = "loop"
    /\ UNCHANGED <<run, response, storeDocs, claims, report, reportCount,
                   stores_by_owner, todo, user_id, current_claims, prev>>

\* The stream is exhausted: the summary is printed and the report is written.
WriteReport ==
    /\ pc = "loop"
    /\ todo = {}
    /\ report' = [written |-> TRUE, stats |-> stats, results |-> results]
    /\ reportCount' = reportCount + 1
    /\ cur' = [cur EXCEPT !.completed = TRUE]
    /\ pc' = "done"
    /\ UNCHANGED <<run, response, storeDocs, claims, revoked, locals, prev>>

Next ==
    \/ Launch
    \/ \E inp \in Inputs : Answer(inp)
    \/ Interrupt
    \/ LoadStores
    \/ \E u \in Users, ok \in BOOLEAN : FetchClaims(u, ok)
    \/ AlreadyHasClaims
    \/ NoStore
    \/ \E ok \in BOOLEAN : SetClaims(ok)
    \/ \E ok \in BOOLEAN : RevokeTokens(ok)
    \/ WriteReport

Spec == Init /\ [][Next]_vars

(***************************************************************************)
(* Vocabulary of the properties.                                           *)
(***************************************************************************)

Statuses == {"migrated", "already_has_claims", "no_store", "error"}

\* The users that have an outcome record in this invocation.
Recorded == {results[i].userId : i \in 1..Len(results)}

\* The outcome record of a recorded user.
RecordOf(u) == results[CHOOSE i \in 1..Len(results) : results[i].userId = u]

\* The number of outcome records with a status.
CountOf(rs, st) == Cardinality({i \in 1..Len(rs) : rs[i].status = st})

\* User u is the ownerId of some store document.
OwnsStore(u) == \E j \in 1..Len(storeDocs) : storeDocs[j].ownerId = u

\* The ids of the store documents owned by u.
StoresOf(u) == {storeDocs[j].id : j \in {k \in 1..Len(storeDocs) : storeDocs[k].ownerId = u}}

\* The invocation is at a record boundary of the loop, or past the loop.
AtBoundary == pc \in {"loop", "done"}

\* The counts of a stats record match a list of outcome records.
CountsMatch(st, rs) ==
    /\ st.total = Len(rs)
    /\ st.migrated = CountOf(rs, "migrated")
    /\ st.already_has_claims = CountOf(rs, "already_has_claims")
    /\ st.no_store = CountOf(rs, "no_store")
    /\ st.errors = CountOf(rs, "error")
    /\ st.migrated + st.already_has_claims + st.no_store + st.errors = st.total

\* The status the decision procedure assigns to a user from that user's own claim
\* set, ownership and call outcomes alone.
ExpectedStatus(c0, owns, f, w) ==
    IF f = "ok" /\ Truthy(c0.storeId) THEN "already_has_claims"
    ELSE IF ~owns THEN "no_store"
    ELSE IF w = "ok" THEN "migrated"
    ELSE "error"

(***************************************************************************)
(* C4. Failure isolation: a failed claim write is recorded as `error` and  *)
(* counted once; every user's status is decided by that user's own claim   *)
(* set, ownership and call outcomes, whatever happened to the other users; *)
(* a run that reaches its end has processed every user.                    *)
(***************************************************************************)
C4_FailureIsolation ==
    /\ \A u \in Users :
          cur.calls[u].write = "fail" =>
             u \in Recorded /\ RecordOf(u).status = "error"
    /\ \A u \in Recorded :
          RecordOf(u).status =
             ExpectedStatus(cur.startClaims[u], OwnsStore(u),
                            cur.calls[u].fetch, cur.calls[u].write)
    /\ AtBoundary =>
          stats.errors = Cardinality({u \in Users : cur.calls[u].write = "fail"})
    /\ pc = "done" => Recorded = Users

\* A run ended in which the first user's write failed and the next user migrated.
C4_Witness ==
    /\ pc = "done"
    /\ Len(results) = 2
    /\ results[1].status = "error"
    /\ results[2].status = "migrated"

(***************************************************************************)
(* C5. Exhaustiveness and report completeness: every processed user has    *)
(* exactly one outcome record with one of the four statuses; at every      *)
(* record boundary the list has `total` entries and each count equals the  *)
(* number of records with that status; the written report holds the same   *)
(* counts and list.                                                        *)
(***************************************************************************)
C5_ReportComplete ==
    /\ \A i \in 1..Len(results) : results[i].status \in Statuses
    /\ \A i, j \in 1..Len(results) : results[i].userId = results[j].userId => i = j
    /\ AtBoundary => Recorded = Users \ todo /\ CountsMatch(stats, results)
    /\ pc \in {"fetched", "written"} =>
          /\ Recorded = Users \ (todo \cup {user_id})
          /\ stats.total = Len(results) + 1
    /\ pc = "done" => report.written /\ Recorded = Users
    /\ report.written =>
          /\ report.stats = stats
          /\ report.results = results
          /\ CountsMatch(report.stats, report.results)

\* A report was written for a run with one error and one short-circuited user.
C5_Witness ==
    /\ report.written
    /\ report.stats.total = 2
    /\ report.stats.errors = 1
    /\ report.stats.already_has_claims = 1

(***************************************************************************)
(* C9. Write-then-invalidate: a revocation is called for a user only after *)
(* that user's claim write succeeded in the same run; `migrated` implies   *)
(* the write of {storeId: the indexed store of that user, role: "owner"}   *)
(* succeeded; once the write succeeded the status is `migrated` whatever   *)
(* the revocation returned.                                                *)
(***************************************************************************)
C9_WriteThenInvalidate ==
    \A u \in Users :
       /\ cur.calls[u].revoke # "-" => cur.calls[u].write = "ok"
       /\ cur.calls[u].write = "ok" =>
             /\ claims[u] = [storeId |-> stores_by_owner[u].storeId,
                             role |-> "owner", plan |-> NoVal]
             /\ stores_by_owner[u].storeId \in StoresOf(u)
       /\ u \in Recorded =>
             /\ RecordOf(u).status = "migrated" <=> cur.calls[u].write = "ok"
             /\ RecordOf(u).status = "migrated" =>
                   /\ cur.calls[u].revoke \in {"ok", "fail"}
                   /\ RecordOf(u).storeId = stores_by_owner[u].storeId
                   /\ RecordOf(u).role = "owner"

\* A user was recorded as migrated although the revocation failed.
C9_Witness ==
    \E u \in Recorded :
       /\ RecordOf(u).status = "migrated"
       /\ cur.calls[u].revoke = "fail"
       /\ ~revoked[u]

(***************************************************************************)
(* C2. No-store correctness.                                               *)
(***************************************************************************)

\* C2 as stated: a user who is the ownerId of no store is always recorded as
\* `no_store`, whatever that user's claim set holds.
C2_AsStated ==
    \A u \in Recorded : ~OwnsStore(u) => RecordOf(u).status = "no_store"

\* C2 as amended: a user who is the ownerId of no store is recorded as `no_store`
\* unless the fetch succeeded and returned a non-empty storeId, in which case the
\* record is `already_has_claims`; no write and no revocation is called for that
\* user and the claim set is left as it was.
C2_NoStore ==
    \A u \in Users :
       ~OwnsStore(u) =>
          /\ cur.calls[u].write = "-"
          /\ cur.calls[u].revoke = "-"
          /\ claims[u] = cur.startClaims[u]
          /\ u \in Recorded =>
                RecordOf(u).status =
                   IF cur.calls[u].fetch = "ok" /\ Truthy(cur.startClaims[u].storeId)
                   THEN "already_has_claims" ELSE "no_store"

\* A user without store whose storeId claim could not be fetched was recorded as
\* no_store.
C2_Witness ==
    \E u \in Recorded :
       /\ ~OwnsStore(u)
       /\ RecordOf(u).status = "no_store"
       /\ Truthy(cur.startClaims[u].storeId)
       /\ cur.calls[u].fetch = "fail"

(***************************************************************************)
(* C3. Short-circuit correctness.                                          *)
(***************************************************************************)

\* C3 as stated: a user whose stored claim set holds a non-empty storeId is
\* recorded as `already_has_claims` with no write, no revocation and an
\* unchanged claim set.
C3_AsStated ==
    \A u \in Users :
       Truthy(cur.startClaims[u].storeId) =>
          /\ cur.calls[u].write = "-"
          /\ cur.calls[u].revoke = "-"
          /\ claims[u] = cur.startClaims[u]
          /\ u \in Recorded => RecordOf(u).status = "already_has_claims"

\* C3 as amended: a user whose stored claim set holds a non-empty storeId and
\* whose fetch succeeded is recorded as `already_has_claims` with the stored
\* storeId and role echoed; no write and no revocation is called for that user
\* and the claim set is unchanged.
C3_ShortCircuit ==
    \A u \in Users :
       Truthy(cur.startClaims[u].storeId) /\ cur.calls[u].fetch = "ok" =>
          /\ cur.calls[u].write = "-"
          /\ cur.calls[u].revoke = "-"
          /\ claims[u] = cur.startClaims[u]
          /\ u \in Recorded =>
                /\ RecordOf(u).status = "already_has_claims"
                /\ RecordOf(u).storeId = cur.startClaims[u].storeId
                /\ RecordOf(u).role = cur.startClaims[u].role

\* A store owner holding the storeId claim of another store was short-circuited.
C3_Witness ==
    \E u \in Recorded :
       /\ OwnsStore(u)
       /\ cur.startClaims[u].storeId = "S9"
       /\ RecordOf(u).status = "already_has_claims"
       /\ RecordOf(u).storeId = "S9"
       /\ claims[u].plan = "pro"

(***************************************************************************)
(* C6. Claim-set preservation.                                             *)
(***************************************************************************)

\* C6: the claim key unrelated to the migration keeps the value it had when the
\* run started, for every user.
C6_OtherKeysKept ==
    \A u \in Users : claims[u].plan = cur.startClaims[u].plan

(***************************************************************************)
(* C7. Operator gate: a declined prompt, or an interrupt at the prompt,    *)
(* ends the script with no claim write, no revocation and no report; a     *)
(* claim write, a revocation or a report occurs only after the answer that *)
(* normalises to "s".                                                      *)
(***************************************************************************)
C7_OperatorGate ==
    /\ pc = "cancelled" => response # <<"s">> /\ ~cur.ran
    /\ ~cur.ran =>
          /\ claims = cur.startClaims
          /\ \A u \in Users : cur.calls[u] = NoCalls
          /\ ~report.written
          /\ results = <<>>
    /\ pc \in {"load", "loop", "fetched", "written", "done"} => cur.ran
    /\ cur.ran => response = <<"s">>

\* The operator declined in an invocation that follows a run.
C7_Witness ==
    /\ pc = "cancelled"
    /\ response = <<"n", "s">>
    /\ prev.ran

(***************************************************************************)
(* C1. Idempotence over two successive runs.                               *)
(***************************************************************************)

\* C1 as stated: a user recorded as `migrated` by the previous run is recorded as
\* `already_has_claims` by this run, whatever the fetch, write and revocation
\* calls return.
C1_AsStated ==
    \A u \in Recorded :
       prev.ran /\ prev.status[u] = "migrated" =>
          RecordOf(u).status = "already_has_claims"

\* C1 as amended: a user recorded as `migrated` by the previous run is recorded as
\* `already_has_claims`, with the migrated storeId and role, by this run whenever
\* this run's fetch of that user's claims succeeds (after a failed fetch the user
\* is written again and recorded `migrated` or `error`); the claim set stays the
\* migrated one either way; a complete re-run after a complete run without
\* errors, with every fetch succeeding, records no user as `migrated`.
C1_Idempotent ==
    /\ \A u \in Users :
          prev.ran /\ prev.status[u] = "migrated" =>
             /\ claims[u] = [storeId |-> claims[u].storeId, role |-> "owner",
                             plan |-> NoVal]
             /\ claims[u].storeId \in StoresOf(u)
             /\ u \in Recorded =>
                   /\ RecordOf(u).status \in {"already_has_claims", "migrated", "error"}
                   /\ cur.calls[u].fetch = "ok" =>
                         /\ RecordOf(u).status = "already_has_claims"
                         /\ RecordOf(u).storeId = claims[u].storeId
                         /\ RecordOf(u).role = "owner"
                         /\ cur.calls[u].write = "-"
    /\ ( /\ pc = "done"
         /\ prev.completed
         /\ \A u \in Users : prev.status[u] # "error" /\ cur.calls[u].fetch = "ok" )
       => /\ stats.migrated = 0
          /\ \A u \in Users :
                prev.status[u] = "migrated" =>
                   RecordOf(u).status = "already_has_claims"

\* A complete re-run short-circuited two users the previous complete run migrated.
C1_Witness ==
    /\ pc = "done"
    /\ prev.completed
    /\ \A u \in Users :
          /\ prev.status[u] = "migrated"
          /\ RecordOf(u).status = "already_has_claims"
    /\ stats.already_has_claims = 2

(***************************************************************************)
(* C8. Crash safety and re-run.                                            *)
(***************************************************************************)

\* The outcome of the first call of a kind made for u over the previous run and
\* this one.
FirstCall(u, op) ==
    IF prev.calls[u][op] # "-" THEN prev.calls[u][op] ELSE cur.calls[u][op]

\* The calls of a kind made for u in the previous run and in this one returned
\* the same.
SameCalls(u, op) ==
    prev.calls[u][op] # "-" /\ cur.calls[u][op] # "-" =>
       prev.calls[u][op] = cur.calls[u][op]

\* The claim set one uninterrupted run leaves a user with, from the claim set c0,
\* the index entry info and the outcomes f and w of the fetch and the write.
Uninterrupted(c0, info, f, w) ==
    IF f = "ok" /\ Truthy(c0.storeId) THEN c0
    ELSE IF info.storeId = NoVal THEN c0
    ELSE IF w = "ok" THEN [storeId |-> info.storeId, role |-> "owner", plan |-> NoVal]
    ELSE c0

\* Nothing is rolled back: as long as the invocation lasts, and after it was
\* stopped, a user whose write succeeded holds the new claim set and any other
\* user holds the claim set the run started from.
NoRollback ==
    \A u \in Users :
       claims[u] = IF cur.calls[u].write = "ok"
                   THEN [storeId |-> stores_by_owner[u].storeId, role |-> "owner",
                         plan |-> NoVal]
                   ELSE cur.startClaims[u]

\* C8 as stated: nothing is rolled back, and a complete run after a run stopped
\* mid-way ends with the claim sets of one uninterrupted run, given the same
\* write outcomes.
C8_AsStated ==
    /\ NoRollback
    /\ pc = "done" /\ prev.ran /\ ~prev.completed =>
          \A u \in Users :
             SameCalls(u, "write") =>
                claims[u] = Uninterrupted(prev.startClaims[u], stores_by_owner[u],
                                          FirstCall(u, "fetch"), FirstCall(u, "write"))

\* C8 as amended: nothing is rolled back, and a complete run after a run stopped
\* mid-way ends with the claim sets of one uninterrupted run, given the same
\* fetch outcomes and the same write outcomes.
C8_CrashSafe ==
    /\ NoRollback
    /\ pc = "done" /\ prev.ran /\ ~prev.completed =>
          \A u \in Users :
             SameCalls(u, "write") /\ SameCalls(u, "fetch") =>
                claims[u] = Uninterrupted(prev.startClaims[u], stores_by_owner[u],
                                          FirstCall(u, "fetch"), FirstCall(u, "write"))

\* A run was stopped between the write and the revocation of one user, before the
\* other user was reached, and the next run completed the migration.
C8_Witness ==
    /\ pc = "done"
    /\ prev.ran /\ ~prev.completed
    /\ \E u, v \in Users :
          /\ prev.calls[u].write = "ok" /\ prev.calls[u].revoke = "-"
          /\ prev.calls[v].fetch = "-"
          /\ RecordOf(u).status = "already_has_claims"
          /\ RecordOf(v).status = "migrated"
          /\ prev.startClaims[v].plan = "pro"

(***************************************************************************)
(* C10. The revocation is never retried: a user whose write succeeded and  *)
(* whose revocation failed in an earlier run is short-circuited as         *)
(* `already_has_claims`, with no write and no revocation call, in every    *)
(* later run that fetches that user's claims successfully.                 *)
(***************************************************************************)
C10_NoRetry ==
    \A u \in cur.missed :
       cur.calls[u].fetch = "ok" =>
          /\ cur.calls[u].write = "-"
          /\ cur.calls[u].revoke = "-"
          /\ u \in Recorded => RecordOf(u).status = "already_has_claims"

\* A user whose revocation failed in an earlier run was short-circuited and still
\* has unrevoked tokens.
C10_Witness ==
    \E u \in cur.missed \cap Recorded :
       /\ cur.calls[u].fetch = "ok"
       /\ RecordOf(u).status = "already_has_claims"
       /\ ~revoked[u]

====
